---------------------------- MODULE Spec2Model ----------------------------
(***************************************************************************)
(* A model of the paystack client (src/paystack.go): NewClient, the        *)
(* generic dispatcher Client.request and its five callers.                 *)
(*                                                                         *)
(* Go values are modelled as follows.                                      *)
(*   - a string is a TLA+ string;                                          *)
(*   - a struct value is a function from its Go field names to values;     *)
(*   - a pointer is [isNil |-> TRUE] or [isNil |-> FALSE, val |-> v];      *)
(*   - an error is [isNil |-> TRUE] or [isNil |-> FALSE, kind, msg];       *)
(*   - a JSON document is its syntax tree: [k |-> "null"], [k |-> "str",   *)
(*     v], [k |-> "num", int, v], [k |-> "bool", v], [k |-> "arr"],        *)
(*     [k |-> "obj", m |-> <<[key, val], ...>>];                           *)
(*   - a response body is its raw text; ParseJSON gives the syntax tree of *)
(*     each sample text, or Invalid for text that is not a JSON document.  *)
(***************************************************************************)
EXTENDS Integers, Sequences, FiniteSets, TLC

VARIABLES env, proc, client, calls, wire, ncalls

vars == <<env, proc, client, calls, wire, ncalls>>

-----------------------------------------------------------------------------
(* Bounds of the model. *)

\* Calls a single caller issues one after another (Spec).
MaxCalls == 2

\* Goroutines sharing one Client (ConcSpec).
NumGoroutines == 2

\* Times http.DefaultClient.Do may be entered by one call before the model
\* stops following it (the code enters it once; a retrying variant more).
MaxAttempts == 2

-----------------------------------------------------------------------------
(* Program constants. *)

\* http.StatusOK
StatusOK == 200

\* The largest int32: the type of the amount parameter.
MaxInt32 == 2147483647

MinInt32 == -MaxInt32 - 1

BaseURL == "https://api.paystack.co"

-----------------------------------------------------------------------------
(* Go values. *)

NilPtr == [isNil |-> TRUE]

Ptr(v) == [isNil |-> FALSE, val |-> v]

NilErr == [isNil |-> TRUE]

Err(kind, msg) == [isNil |-> FALSE, kind |-> kind, msg |-> msg]

\* The struct types of the package: each field's Go name, the name its json
\* tag gives it (the Go name when the field has no tag) and its type.
Fields(T) ==
    CASE T = "Customer" ->
           << [go |-> "Id", json |-> "id", type |-> "int"],
              [go |-> "Email", json |-> "email", type |-> "string"],
              [go |-> "CustomerCode", json |-> "customer_code", type |-> "string"] >>
      [] T = "CreateCustomerResp" ->
           << [go |-> "Data", json |-> "data", type |-> "*Customer"] >>
      [] T = "InitializedTransaction" ->
           << [go |-> "Reference", json |-> "reference", type |-> "string"],
              [go |-> "AuthorizationUrl", json |-> "authorization_url", type |-> "string"],
              [go |-> "AccessCode", json |-> "access_code", type |-> "string"] >>
      [] T = "InitTransactionReq" ->
           << [go |-> "Email", json |-> "email", type |-> "string"],
              [go |-> "Amount", json |-> "amount", type |-> "string"] >>
      [] T = "InitTransactionResp" ->
           << [go |-> "Data", json |-> "Data", type |-> "*InitializedTransaction"] >>
      [] T = "ChargeTransactionReq" ->
           << [go |-> "Email", json |-> "email", type |-> "string"],
              [go |-> "Amount", json |-> "amount", type |-> "string"],
              [go |-> "AuthorizationCode", json |-> "authorization_code", type |-> "string"] >>
      [] T = "ChargeTransactionResp" ->
           << [go |-> "Data", json |-> "Data", type |-> "*InitializedTransaction"] >>
      [] T = "Authorization" ->
           << [go |-> "AuthorizationCode", json |-> "authorization_code", type |-> "string"],
              [go |-> "Bin", json |-> "bin", type |-> "string"],
              [go |-> "Last4", json |-> "last4", type |-> "string"],
              [go |-> "ExpMonth", json |-> "exp_month", type |-> "string"],
              [go |-> "ExpYear", json |-> "exp_year", type |-> "string"],
              [go |-> "Channel", json |-> "channel", type |-> "string"],
              [go |-> "CardType", json |-> "card_type", type |-> "string"],
              [go |-> "Bank", json |-> "bank", type |-> "string"],
              [go |-> "CountryCode", json |-> "country_code", type |-> "string"],
              [go |-> "Brand", json |-> "brand", type |-> "string"],
              [go |-> "Reusable", json |-> "reusable", type |-> "bool"],
              [go |-> "Signature", json |-> "signature", type |-> "string"],
              [go |-> "AccountName", json |-> "account_name", type |-> "string"] >>
      [] T = "VerifiedTransaction" ->
           << [go |-> "Id", json |-> "id", type |-> "int"],
              [go |-> "Reference", json |-> "reference", type |-> "string"],
              [go |-> "Status", json |-> "status", type |-> "string"],
              [go |-> "Authorization", json |-> "authorization", type |-> "*Authorization"] >>
      [] T = "VerifiedTransactionResp" ->
           << [go |-> "Data", json |-> "Data", type |-> "*VerifiedTransaction"] >>

IsPtr(t) ==
    t \in {"*Customer", "*InitializedTransaction", "*Authorization", "*VerifiedTransaction"}

Elem(t) ==
    CASE t = "*Customer" -> "Customer"
      [] t = "*InitializedTransaction" -> "InitializedTransaction"
      [] t = "*Authorization" -> "Authorization"
      [] t = "*VerifiedTransaction" -> "VerifiedTransaction"

\* The zero value of a field type.
Zero(t) ==
    CASE t = "int" -> 0
      [] t = "string" -> ""
      [] t = "bool" -> FALSE
      [] OTHER -> NilPtr

GoNames(T) == {Fields(T)[n].go : n \in 1..Len(Fields(T))}

FieldNamed(T, g) == CHOOSE f \in {Fields(T)[n] : n \in 1..Len(Fields(T))} : f.go = g

\* The zero value of struct type T: &T{} points to it.
ZeroStruct(T) == [g \in GoNames(T) |-> Zero(FieldNamed(T, g).type)]

\* A struct literal T{...}: the fields given, the others zero.
Lit(T, given) ==
    [g \in GoNames(T) |-> IF g \in DOMAIN given THEN given[g] ELSE Zero(FieldNamed(T, g).type)]

-----------------------------------------------------------------------------
(* fmt *)

Digit(d) ==
    CASE d = 0 -> "0" [] d = 1 -> "1" [] d = 2 -> "2" [] d = 3 -> "3" [] d = 4 -> "4"
      [] d = 5 -> "5" [] d = 6 -> "6" [] d = 7 -> "7" [] d = 8 -> "8" [] d = 9 -> "9"

RECURSIVE FmtNat(_)
\* The decimal digits of n >= 0, most significant first.
FmtNat(n) == IF n < 10 THEN Digit(n) ELSE FmtNat(n \div 10) \o Digit(n % 10)

\* A variant that drops the sign.
Sprintf_d_unsigned(n) ==
    IF n >= 0 THEN FmtNat(n)
    ELSE LET d == (10 - (n % 10)) % 10
             q == -((n + d) \div 10)
         IN  IF q = 0 THEN Digit(d) ELSE FmtNat(q) \o Digit(d)

\* fmt.Sprintf("%d", n) for an int32 n: a "-" for a negative n, then the
\* digits of its magnitude.  The magnitude of MinInt32 is not an int32 (nor a
\* TLC integer), so a negative n is split into its last digit d and the rest
\* before its sign is dropped.
Sprintf_d(n) ==
    IF n >= 0 THEN FmtNat(n)
    ELSE LET d == (10 - (n % 10)) % 10
             q == -((n + d) \div 10)
         IN  "-" \o (IF q = 0 THEN Digit(d) ELSE FmtNat(q) \o Digit(d))

\* fmt.Errorf("%s", s): an error whose message is s.
Errorf(format, s) == IF format = "%s" THEN Err("errorString", s) ELSE Err("errorString", format)

-----------------------------------------------------------------------------
(* encoding/json: Marshal *)

JNull == [k |-> "null"]

JStr(s) == [k |-> "str", v |-> s]

JInt(n) == [k |-> "num", int |-> TRUE, v |-> n]

\* A JSON number with a fraction or an exponent, such as 1.5.
JFrac == [k |-> "num", int |-> FALSE, v |-> 0]

JBool(b) == [k |-> "bool", v |-> b]

JArr == [k |-> "arr"]

JObj(members) == [k |-> "obj", m |-> members]

Member(key, val) == [key |-> key, val |-> val]

RECURSIVE Encode(_, _)
\* The JSON encoding of Go value v of type t.  No field of the package has
\* an omitempty option: every field of a struct is written, in declaration
\* order, under its json name.
Encode(t, v) ==
    CASE t = "int" -> JInt(v)
      [] t = "string" -> JStr(v)
      [] t = "bool" -> JBool(v)
      [] IsPtr(t) ->
           IF v.isNil THEN JNull
           ELSE JObj([n \in 1..Len(Fields(Elem(t))) |->
                        LET f == Fields(Elem(t))[n]
                        IN  Member(f.json, Encode(f.type, v.val[f.go]))])

\* json.Marshal(&T{...}).  The payloads of the package are structs of
\* strings and ints, which Marshal never rejects: err is always nil.
Marshal(T, v) ==
    [err |-> NilErr,
     doc |-> JObj([n \in 1..Len(Fields(T)) |->
                     LET f == Fields(T)[n]
                     IN  Member(f.json, Encode(f.type, v[f.go]))])]

-----------------------------------------------------------------------------
(* Sample response bodies, as raw text. *)

BodyEmpty == ""

BodyTruncated == "{\"data\":{\"id\":1,"

BodyHTML == "<html>502 Bad Gateway</html>"

BodyInvalidKey == "{\"message\":\"invalid key\"}"

BodyNull == "null"

BodyArray == "[]"

BodyDataString == "{\"data\":\"oops\"}"

BodyCustomer == "{\"data\":{\"id\":1,\"email\":\"a@b.com\",\"customer_code\":\"CUS_xyz\"}}"

BodyCustomerIdString == "{\"data\":{\"id\":\"1\",\"email\":\"a@b.com\"}}"

BodyInitTx == "{\"status\":true,\"message\":\"Authorization URL created\",\"data\":{\"authorization_url\":\"https://checkout.paystack.com/0peioxfhpn\",\"access_code\":\"0peioxfhpn\",\"reference\":\"ref123\"}}"

BodyVerified == "{\"data\":{\"id\":40992605,\"reference\":\"ref123\",\"status\":\"success\",\"authorization\":{\"authorization_code\":\"AUTH_uh8bcl3zbn\",\"bin\":\"408408\",\"last4\":\"4081\",\"exp_month\":\"12\",\"exp_year\":\"2030\",\"channel\":\"card\",\"card_type\":\"visa \",\"bank\":\"TEST BANK\",\"country_code\":\"NG\",\"brand\":\"visa\",\"reusable\":true,\"signature\":\"SIG_yEXu7dLBeqG0kU7g95Ke\",\"account_name\":null}}}"

BodyVerifiedNoAuth == "{\"data\":{\"id\":7,\"reference\":\"ref123\",\"status\":\"failed\",\"authorization\":null}}"

SampleBodies ==
    {BodyEmpty, BodyTruncated, BodyHTML, BodyInvalidKey, BodyNull, BodyArray, BodyDataString,
     BodyCustomer, BodyCustomerIdString, BodyInitTx, BodyVerified, BodyVerifiedNoAuth}

-----------------------------------------------------------------------------
(* encoding/json: Unmarshal *)

Invalid == [k |-> "invalid"]

\* The syntax tree of each sample body; Invalid for the texts json's scanner
\* rejects (the empty text: "unexpected end of JSON input").
ParseJSON(text) ==
    CASE text = BodyInvalidKey -> JObj(<< Member("message", JStr("invalid key")) >>)
      [] text = BodyNull -> JNull
      [] text = BodyArray -> JArr
      [] text = BodyDataString -> JObj(<< Member("data", JStr("oops")) >>)
      [] text = BodyCustomer ->
           JObj(<< Member("data", JObj(<< Member("id", JInt(1)),
                                          Member("email", JStr("a@b.com")),
                                          Member("customer_code", JStr("CUS_xyz")) >>)) >>)
      [] text = BodyCustomerIdString ->
           JObj(<< Member("data", JObj(<< Member("id", JStr("1")),
                                          Member("email", JStr("a@b.com")) >>)) >>)
      [] text = BodyInitTx ->
           JObj(<< Member("status", JBool(TRUE)),
                   Member("message", JStr("Authorization URL created")),
                   Member("data", JObj(<<
                       Member("authorization_url", JStr("https://checkout.paystack.com/0peioxfhpn")),
                       Member("access_code", JStr("0peioxfhpn")),
                       Member("reference", JStr("ref123")) >>)) >>)
      [] text = BodyVerified ->
           JObj(<< Member("data", JObj(<<
                       Member("id", JInt(40992605)),
                       Member("reference", JStr("ref123")),
                       Member("status", JStr("success")),
                       Member("authorization", JObj(<<
                           Member("authorization_code", JStr("AUTH_uh8bcl3zbn")),
                           Member("bin", JStr("408408")),
                           Member("last4", JStr("4081")),
                           Member("exp_month", JStr("12")),
                           Member("exp_year", JStr("2030")),
                           Member("channel", JStr("card")),
                           Member("card_type", JStr("visa ")),
                           Member("bank", JStr("TEST BANK")),
                           Member("country_code", JStr("NG")),
                           Member("brand", JStr("visa")),
                           Member("reusable", JBool(TRUE)),
                           Member("signature", JStr("SIG_yEXu7dLBeqG0kU7g95Ke")),
                           Member("account_name", JNull) >>)) >>)) >>)
      [] text = BodyVerifiedNoAuth ->
           JObj(<< Member("data", JObj(<<
                       Member("id", JInt(7)),
                       Member("reference", JStr("ref123")),
                       Member("status", JStr("failed")),
                       Member("authorization", JNull) >>)) >>)
      [] OTHER -> Invalid

\* strings.ToLower on the keys and field names of the model.
Lower(s) ==
    CASE s = "Data" -> "data"
      [] OTHER -> s

\* A variant that matches a key against a field's name byte for byte only.
FindFieldExact(T, key) ==
    LET exact == {n \in 1..Len(Fields(T)) : Fields(T)[n].json = key}
    IN  IF exact # {} THEN CHOOSE n \in exact : TRUE ELSE 0

\* The field of T a JSON key is stored into: the one whose json name is the
\* key, else the first whose name equals it under case folding; 0 for none.
FindField(T, key) ==
    LET exact == {n \in 1..Len(Fields(T)) : Fields(T)[n].json = key}
        fold  == {n \in 1..Len(Fields(T)) : Lower(Fields(T)[n].json) = Lower(key)}
    IN  IF exact # {} THEN CHOOSE n \in exact : TRUE
        ELSE IF fold # {} THEN CHOOSE n \in fold : \A o \in fold : n <= o
        ELSE 0

TypeErr == Err("UnmarshalTypeError", "json: cannot unmarshal value into Go value")

SyntaxErr == Err("SyntaxError", "invalid JSON")

\* The first error is the one Unmarshal reports.
FirstErr(a, b) == IF a.isNil THEN b ELSE a

RECURSIVE DecodeStruct(_, _, _)
RECURSIVE DecodeMembers(_, _, _, _)
RECURSIVE DecodeValue(_, _, _)

\* Stores JSON value j into a Go value cur of type t.
DecodeValue(t, j, cur) ==
    CASE t = "int" ->
           IF j.k = "null" THEN [err |-> NilErr, val |-> cur]
           ELSE IF j.k = "num" /\ j.int THEN [err |-> NilErr, val |-> j.v]
           ELSE [err |-> TypeErr, val |-> cur]
      [] t = "string" ->
           IF j.k = "null" THEN [err |-> NilErr, val |-> cur]
           ELSE IF j.k = "str" THEN [err |-> NilErr, val |-> j.v]
           ELSE [err |-> TypeErr, val |-> cur]
      [] t = "bool" ->
           IF j.k = "null" THEN [err |-> NilErr, val |-> cur]
           ELSE IF j.k = "bool" THEN [err |-> NilErr, val |-> j.v]
           ELSE [err |-> TypeErr, val |-> cur]
      [] IsPtr(t) ->
           \* null sets the pointer to nil; anything else allocates when the
           \* pointer is nil and decodes into what it points to.
           IF j.k = "null" THEN [err |-> NilErr, val |-> NilPtr]
           ELSE LET base == IF cur.isNil THEN ZeroStruct(Elem(t)) ELSE cur.val
                    r    == DecodeStruct(Elem(t), j, base)
                IN  [err |-> r.err, val |-> Ptr(r.val)]

\* Stores the members ms[n..] of a JSON object into struct acc of type T.
DecodeMembers(T, ms, n, acc) ==
    IF n > Len(ms) THEN [err |-> NilErr, val |-> acc]
    ELSE LET f == FindField(T, ms[n].key)
         IN  IF f = 0 THEN DecodeMembers(T, ms, n + 1, acc)
             ELSE LET fd   == Fields(T)[f]
                      one  == DecodeValue(fd.type, ms[n].val, acc[fd.go])
                      rest == DecodeMembers(T, ms, n + 1, [acc EXCEPT ![fd.go] = one.val])
                  IN  [err |-> FirstErr(one.err, rest.err), val |-> rest.val]

\* Stores JSON value j into struct cur of type T: null changes nothing, an
\* object is stored member by member, any other value is a type error.
DecodeStruct(T, j, cur) ==
    IF j.k = "null" THEN [err |-> NilErr, val |-> cur]
    ELSE IF j.k = "obj" THEN DecodeMembers(T, j.m, 1, cur)
    ELSE [err |-> TypeErr, val |-> cur]

\* json.Unmarshal(text, dst) for dst a pointer to struct cur of type T: text
\* that is not a JSON document is a syntax error and leaves dst alone.
Unmarshal(text, T, cur) ==
    LET j == ParseJSON(text)
    IN  IF j.k = "invalid" THEN [err |-> SyntaxErr, val |-> cur]
        ELSE DecodeStruct(T, j, cur)

-----------------------------------------------------------------------------
(* Inputs: the environment, the callers' arguments, the network. *)

\* Values of the PAYSTACK_SECRET environment variable; "" is unset.
EnvValues == {"", "sk_test_123", "sk_live_9"}

Ops ==
    {"ValidateCredentials", "CreateCustomer", "InitializeTransaction",
     "ChargeAuthorization", "VerifyTransaction"}

Amounts == {MinInt32, -15, -1, 0, 7, 100, MaxInt32}

\* The last reference holds a line feed, the middle one characters a URL
\* gives a meaning to.
Refs == {"ref123", "a/b?c=d", "ref\n123"}

Input(op, ctx, email, amount, authCode, ref) ==
    [op |-> op, ctx |-> ctx, email |-> email, amount |-> amount,
     authCode |-> authCode, ref |-> ref]

NoInput == Input("", "nil", "", 0, "", "")

\* The calls of a single caller: ctx is "nil" (a nil context.Context) or
\* "background".
Inputs ==
    {Input("ValidateCredentials", c, "", 0, "", "") : c \in {"nil", "background"}}
    \cup {Input("CreateCustomer", "background", e, 0, "", "") : e \in {"a@b.com", ""}}
    \cup {Input("InitializeTransaction", "background", "a@b.com", a, "", "") : a \in Amounts}
    \cup {Input("ChargeAuthorization", "background", "a@b.com", a, "AUTH_uh8bcl3zbn", "") :
            a \in Amounts}
    \cup {Input("VerifyTransaction", "background", "", 0, "", r) : r \in Refs}

\* The calls of goroutines sharing a client.
ConcInputs ==
    {Input("ValidateCredentials", "background", "", 0, "", ""),
     Input("CreateCustomer", "background", "a@b.com", 0, "", ""),
     Input("VerifyTransaction", "background", "", 0, "", "ref123")}

Response(status, body, readOk) == [status |-> status, body |-> body, readOk |-> readOk]

\* What the network makes of one http.DefaultClient.Do: a response (whose
\* body may fail while it is read), or a transport error before or after
\* the request left.
Outcomes ==
    {[kind |-> "resp", sent |-> TRUE, resp |-> Response(st, b, TRUE)] :
        st \in {StatusOK, 201, 401}, b \in SampleBodies}
    \cup {[kind |-> "resp", sent |-> TRUE, resp |-> Response(st, BodyCustomer, FALSE)] :
            st \in {StatusOK, 500}}
    \cup {[kind |-> "transport", sent |-> snt, resp |-> Response(0, "", FALSE)] :
            snt \in BOOLEAN}

ConcOutcomes ==
    {[kind |-> "resp", sent |-> TRUE, resp |-> Response(StatusOK, BodyCustomer, TRUE)],
     [kind |-> "resp", sent |-> TRUE, resp |-> Response(401, BodyInvalidKey, TRUE)],
     [kind |-> "transport", sent |-> FALSE, resp |-> Response(0, "", FALSE)]}

NoOutcome == [kind |-> "none", sent |-> FALSE, resp |-> Response(0, "", FALSE)]

-----------------------------------------------------------------------------
(* net/http *)

\* A zero-length byte slice: a request built from it has no body.
EmptyBytes == [k |-> "none"]

NoHeader == [h \in {} |-> ""]

\* http.Header.Set
HeaderSet(h, key, value) ==
    [x \in DOMAIN h \cup {key} |-> IF x = key THEN value ELSE h[x]]

NoRequest == [method |-> "", url |-> "", body |-> EmptyBytes, header |-> NoHeader]

\* The sample URLs holding an ASCII control character, which url.Parse
\* rejects.
HasControlChar(url) == url \in {BaseURL \o "/transaction/verify/" \o "ref\n123"}

\* http.NewRequestWithContext: fails on a nil context and on a URL that does
\* not parse.
NewRequestWithContext(ctx, method, url, body) ==
    IF ctx = "nil" THEN [err |-> Err("build", "net/http: nil Context"), req |-> NoRequest]
    ELSE IF HasControlChar(url)
         THEN [err |-> Err("build", "net/url: invalid control character in URL"),
               req |-> NoRequest]
    ELSE [err |-> NilErr,
          req |-> [method |-> method, url |-> url, body |-> body, header |-> NoHeader]]

TransportErr == Err("transport", "dial tcp: connection refused")

ReadErr == Err("read", "unexpected EOF")

-----------------------------------------------------------------------------
(* The five operations: the url, the method, the request payload and the    *)
(* response shape each hands to Client.request ("nil" for none).            *)

Plan(url, method, reqTy, reqBody, respTy) ==
    [url |-> url, method |-> method, reqTy |-> reqTy, reqBody |-> reqBody, respTy |-> respTy]

NoStruct == [g \in {} |-> ""]

ValidateCredentials(in) ==
    Plan(BaseURL \o "/customer", "GET", "nil", NoStruct, "nil")

CreateCustomer(in) ==
    Plan(BaseURL \o "/customer", "POST",
         "Customer", Lit("Customer", [Email |-> in.email]),
         "CreateCustomerResp")

InitializeTransaction(in) ==
    Plan(BaseURL \o "/transaction/initialize", "POST",
         "InitTransactionReq",
         Lit("InitTransactionReq", [Email |-> in.email, Amount |-> Sprintf_d(in.amount)]),
         "InitTransactionResp")

ChargeAuthorization(in) ==
    Plan(BaseURL \o "/transaction/charge_authorization", "POST",
         "ChargeTransactionReq",
         Lit("ChargeTransactionReq",
             [Email |-> in.email, Amount |-> Sprintf_d(in.amount),
              AuthorizationCode |-> in.authCode]),
         "ChargeTransactionResp")

VerifyTransaction(in) ==
    Plan(BaseURL \o "/transaction/verify/" \o in.ref, "GET", "nil", NoStruct,
         "VerifiedTransactionResp")

PlanOf(in) ==
    CASE in.op = "ValidateCredentials" -> ValidateCredentials(in)
      [] in.op = "CreateCustomer" -> CreateCustomer(in)
      [] in.op = "InitializeTransaction" -> InitializeTransaction(in)
      [] in.op = "ChargeAuthorization" -> ChargeAuthorization(in)
      [] in.op = "VerifyTransaction" -> VerifyTransaction(in)

-----------------------------------------------------------------------------
(* The state. *)
(*   env     the value of PAYSTACK_SECRET                                   *)
(*   proc    "start", "running", or "exited" once alog.Fatal ended the      *)
(*           process                                                        *)
(*   client  the *Client NewClient returned, nil before                     *)
(*   calls   one record per caller: where its call stands (pc) and the      *)
(*           locals of the operation and of Client.request                  *)
(*   wire    the requests that left, each tagged with its call              *)
(*   ncalls  the calls begun so far                                         *)

Idle ==
    [pc |-> "idle", in |-> NoInput, respTy |-> "nil", req |-> NoRequest,
     attempts |-> 0, net |-> NoOutcome, deferred |-> FALSE, closed |-> 0,
     dst |-> NoStruct, rerr |-> NilErr, result |-> NilPtr, err |-> NilErr]

Init ==
    /\ env \in EnvValues
    /\ proc = "start"
    /\ client = NilPtr
    /\ calls = [i \in 1..1 |-> Idle]
    /\ wire = {}
    /\ ncalls = 0

ConcInit ==
    /\ env \in EnvValues
    /\ proc = "start"
    /\ client = NilPtr
    /\ calls = [i \in 1..NumGoroutines |-> Idle]
    /\ wire = {}
    /\ ncalls = 0

\* A variant without the check of the secret.
NewClientUnchecked ==
    /\ proc = "start"
    /\ client' = Ptr([secret |-> env])
    /\ proc' = "running"
    /\ UNCHANGED <<env, calls, wire, ncalls>>

\* NewClient: alog.Fatal logs and ends the process, so the return is reached
\* with a non-empty secret only.
NewClient ==
    /\ proc = "start"
    /\ LET secret == env
       IN  IF secret = ""
           THEN proc' = "exited" /\ UNCHANGED client
           ELSE client' = Ptr([secret |-> secret]) /\ proc' = "running"
    /\ UNCHANGED <<env, calls, wire, ncalls>>

\* A variant that sends the secret bare.
BearerHeaderBare(secret) == secret

\* "Bearer "+c.secret
BearerHeader(secret) == "Bearer " \o secret

\* An operation is called and runs up to the call of http.DefaultClient.Do:
\* it builds its url and payload, and Client.request marshals the payload,
\* builds the request and sets its Authorization header.
BeginStep(i, in) ==
    /\ proc = "running"
    /\ calls[i].pc = "idle"
    /\ ncalls < MaxCalls
    /\ ncalls' = ncalls + 1
    /\ LET p  == PlanOf(in)
           m  == IF p.reqTy = "nil" THEN [err |-> NilErr, doc |-> EmptyBytes]
                 ELSE Marshal(p.reqTy, p.reqBody)
           nr == NewRequestWithContext(in.ctx, p.method, p.url, m.doc)
           c  == [Idle EXCEPT !.in = in, !.respTy = p.respTy,
                              !.dst = IF p.respTy = "nil" THEN NoStruct
                                      ELSE ZeroStruct(p.respTy)]
       IN  calls' = [calls EXCEPT ![i] =
              IF ~m.err.isNil THEN [c EXCEPT !.pc = "unwind", !.rerr = m.err]
              ELSE IF ~nr.err.isNil THEN [c EXCEPT !.pc = "unwind", !.rerr = nr.err]
              ELSE [c EXCEPT !.pc = "do",
                             !.req = [nr.req EXCEPT !.header =
                                        HeaderSet(@, "Authorization",
                                                  BearerHeader(client.val.secret))]]]
    /\ UNCHANGED <<env, proc, wire>>

\* A variant that keeps the header value in the client.
BeginStoringHeader(i, in) ==
    /\ BeginStep(i, in)
    /\ client' = [client EXCEPT !.val.secret = BearerHeader(@)]

Begin(i, in) ==
    /\ BeginStep(i, in)
    /\ UNCHANGED client

\* A variant that tries again after a transport error.
DoRetrying(i, o) ==
    /\ calls[i].pc = "do"
    /\ calls[i].attempts < MaxAttempts
    /\ wire' = IF o.sent
               THEN wire \cup {[by |-> i, seq |-> calls[i].attempts + 1, req |-> calls[i].req]}
               ELSE wire
    /\ calls' = [calls EXCEPT ![i] =
          IF o.kind = "transport" /\ calls[i].attempts + 1 < MaxAttempts
          THEN [@ EXCEPT !.attempts = @ + 1]
          ELSE IF o.kind = "transport"
          THEN [@ EXCEPT !.attempts = @ + 1, !.net = o, !.rerr = TransportErr, !.pc = "unwind"]
          ELSE [@ EXCEPT !.attempts = @ + 1, !.net = o, !.deferred = TRUE, !.pc = "read"]]
    /\ UNCHANGED <<env, proc, client, ncalls>>

\* resp, err := http.DefaultClient.Do(req), and defer resp.Body.Close() once
\* a response is there.
Do(i, o) ==
    /\ calls[i].pc = "do"
    /\ calls[i].attempts < MaxAttempts
    /\ wire' = IF o.sent
               THEN wire \cup {[by |-> i, seq |-> calls[i].attempts + 1, req |-> calls[i].req]}
               ELSE wire
    /\ calls' = [calls EXCEPT ![i] =
          IF o.kind = "transport"
          THEN [@ EXCEPT !.attempts = @ + 1, !.net = o, !.rerr = TransportErr, !.pc = "unwind"]
          ELSE [@ EXCEPT !.attempts = @ + 1, !.net = o, !.deferred = TRUE, !.pc = "read"]]
    /\ UNCHANGED <<env, proc, client, ncalls>>

\* A variant that takes every 2xx status for success.
IsStatusOK2xx(status) == status >= 200 /\ status < 300

\* resp.StatusCode == http.StatusOK
IsStatusOK(status) == status = StatusOK

\* A variant that lets a body that does not decode pass.
DecodeLenient(text, T, cur) ==
    IF T = "nil" THEN [err |-> NilErr, val |-> cur]
    ELSE LET u == Unmarshal(text, T, cur)
         IN  IF u.err.isNil THEN u ELSE [err |-> NilErr, val |-> cur]

\* if resp_body != nil { json.Unmarshal(resBody, resp_body) }
Decode(text, T, cur) ==
    IF T = "nil" THEN [err |-> NilErr, val |-> cur]
    ELSE Unmarshal(text, T, cur)

\* The rest of Client.request: the body is read, the status checked and the
\* body decoded into the response shape.
Handle(i) ==
    /\ calls[i].pc = "read"
    /\ LET c    == calls[i]
           resp == c.net.resp
       IN  calls' = [calls EXCEPT ![i] =
              IF ~resp.readOk THEN [c EXCEPT !.rerr = ReadErr, !.pc = "unwind"]
              ELSE IF ~IsStatusOK(resp.status)
                   THEN [c EXCEPT !.rerr = Errorf("%s", resp.body), !.pc = "unwind"]
              ELSE LET u == Decode(resp.body, c.respTy, c.dst)
                   IN  [c EXCEPT !.rerr = u.err, !.dst = u.val, !.pc = "unwind"]]
    /\ UNCHANGED <<env, proc, client, wire, ncalls>>

\* A variant that closes the body on the success path only.
RunDeferredOnSuccess(i) ==
    /\ calls[i].pc = "unwind"
    /\ calls' = [calls EXCEPT ![i] =
          [@ EXCEPT !.pc = "ret",
                    !.closed = IF calls[i].deferred /\ calls[i].rerr.isNil THEN @ + 1 ELSE @]]
    /\ UNCHANGED <<env, proc, client, wire, ncalls>>

\* Client.request returns: the deferred resp.Body.Close() runs if it was
\* registered.
RunDeferred(i) ==
    /\ calls[i].pc = "unwind"
    /\ calls' = [calls EXCEPT ![i] =
          [@ EXCEPT !.pc = "ret", !.closed = IF calls[i].deferred THEN @ + 1 ELSE @]]
    /\ UNCHANGED <<env, proc, client, wire, ncalls>>

\* The operation returns to its caller: the error of Client.request with a
\* nil result, or the Data of the decoded envelope with a nil error
\* (ValidateCredentials returns the error alone).
OpReturn(i) ==
    /\ calls[i].pc = "ret"
    /\ calls' = [calls EXCEPT ![i] =
          IF ~calls[i].rerr.isNil
          THEN [@ EXCEPT !.pc = "done", !.err = calls[i].rerr, !.result = NilPtr]
          ELSE IF calls[i].respTy = "nil"
          THEN [@ EXCEPT !.pc = "done", !.err = NilErr, !.result = NilPtr]
          ELSE [@ EXCEPT !.pc = "done", !.err = NilErr, !.result = calls[i].dst["Data"]]]
    /\ UNCHANGED <<env, proc, client, wire, ncalls>>

\* The caller takes the result and is ready for its next call; what its
\* finished call sent is no longer looked at.
NextCall(i) ==
    /\ calls[i].pc = "done"
    /\ calls' = [calls EXCEPT ![i] = Idle]
    /\ wire' = {w \in wire : w.by # i}
    /\ UNCHANGED <<env, proc, client, ncalls>>

\* One caller, one call at a time, over all the sample inputs.
Next ==
    \/ NewClient
    \/ \E i \in DOMAIN calls, in \in Inputs : Begin(i, in)
    \/ \E i \in DOMAIN calls, o \in Outcomes : Do(i, o)
    \/ \E i \in DOMAIN calls : Handle(i)
    \/ \E i \in DOMAIN calls : RunDeferred(i)
    \/ \E i \in DOMAIN calls : OpReturn(i)
    \/ \E i \in DOMAIN calls : NextCall(i)

Spec == Init /\ [][Next]_vars

\* Goroutines sharing one client, each making one call.
ConcNext ==
    \/ NewClient
    \/ \E i \in DOMAIN calls, in \in ConcInputs : Begin(i, in)
    \/ \E i \in DOMAIN calls, o \in ConcOutcomes : Do(i, o)
    \/ \E i \in DOMAIN calls : Handle(i)
    \/ \E i \in DOMAIN calls : RunDeferred(i)
    \/ \E i \in DOMAIN calls : OpReturn(i)

ConcSpec == ConcInit /\ [][ConcNext]_vars

-----------------------------------------------------------------------------
(* What the properties below speak of. *)

Callers == DOMAIN calls

Done(i) == calls[i].pc = "done"

\* Call i got a response and read its body to the end.
GotBody(i) == calls[i].net.kind = "resp" /\ calls[i].net.resp.readOk

Status(i) == calls[i].net.resp.status

Body(i) == calls[i].net.resp.body

\* The requests call i put on the wire.
SentBy(i) == {w \in wire : w.by = i}

\* The operations that return a result.
ResultOps ==
    {"CreateCustomer", "InitializeTransaction", "ChargeAuthorization", "VerifyTransaction"}

\* The struct an operation's result points to.
ResultStruct(op) ==
    CASE op = "CreateCustomer" -> "Customer"
      [] op = "InitializeTransaction" -> "InitializedTransaction"
      [] op = "ChargeAuthorization" -> "InitializedTransaction"
      [] op = "VerifyTransaction" -> "VerifiedTransaction"

\* The keys of a JSON object, and the value under a key.
Keys(j) == {j.m[n].key : n \in 1..Len(j.m)}

Get(j, key) == j.m[CHOOSE n \in 1..Len(j.m) : j.m[n].key = key].val

UniqueKeys(j) == \A a, b \in 1..Len(j.m) : j.m[a].key = j.m[b].key => a = b

RECURSIVE Conforms(_, _)
\* JSON value j is an object whose members, where they bear the json name of
\* a field of T, hold a value of that field's JSON type (or null).
Conforms(T, j) ==
    /\ j.k = "obj"
    /\ UniqueKeys(j)
    /\ \A n \in 1..Len(Fields(T)) :
          LET f == Fields(T)[n]
          IN  f.json \in Keys(j) =>
                LET v == Get(j, f.json)
                IN  \/ v.k = "null"
                    \/ f.type = "int" /\ v.k = "num" /\ v.int
                    \/ f.type = "string" /\ v.k = "str"
                    \/ f.type = "bool" /\ v.k = "bool"
                    \/ IsPtr(f.type) /\ Conforms(Elem(f.type), v)

\* A well-formed envelope for an operation: an object whose "data" is an
\* object conforming to the operation's result.
WellFormed(op, j) ==
    /\ j.k = "obj"
    /\ UniqueKeys(j)
    /\ "data" \in Keys(j)
    /\ Conforms(ResultStruct(op), Get(j, "data"))

RECURSIVE FieldForField(_, _)
\* The struct of type T that holds, field for field, what object j holds
\* under each field's json name: zero where j has no such member or null.
FieldForField(T, j) ==
    [g \in GoNames(T) |->
        LET f == FieldNamed(T, g)
        IN  IF f.json \notin Keys(j) THEN Zero(f.type)
            ELSE LET v == Get(j, f.json)
                 IN  IF v.k = "null" THEN Zero(f.type)
                     ELSE IF IsPtr(f.type) THEN Ptr(FieldForField(Elem(f.type), v))
                     ELSE v.v]

\* The decimal text of each sample amount.
DecimalText(n) ==
    CASE n = MinInt32 -> "-2147483648"
      [] n = -15 -> "-15"
      [] n = -1 -> "-1"
      [] n = 0 -> "0"
      [] n = 7 -> "7"
      [] n = 100 -> "100"
      [] n = MaxInt32 -> "2147483647"

\* The members of a request body as a set of <<key, value>> pairs; the empty
\* set for a request without a body.
BodyMembers(b) ==
    IF b.k = "obj" THEN {<<b.m[n].key, b.m[n].val>> : n \in 1..Len(b.m)} ELSE {}

-----------------------------------------------------------------------------
(* The claims. *)

\* C1: whenever an operation has returned after a response whose status is
\* not 200 (201 included) and whose body was read, its error is non-nil with
\* the raw body text as its message, its result is nil and nothing was
\* decoded into the response shape.  (A body that cannot be read has no text:
\* the read error is returned instead.)
C1_Non200IsRawBodyError ==
    \A i \in Callers :
        (Done(i) /\ GotBody(i) /\ Status(i) # 200) =>
            /\ ~calls[i].err.isNil
            /\ calls[i].err.msg = Body(i)
            /\ calls[i].result.isNil
            /\ calls[i].respTy # "nil" => calls[i].dst = ZeroStruct(calls[i].respTy)

C1_Witness ==
    \E i \in Callers :
        /\ Done(i) /\ GotBody(i) /\ Status(i) = 201
        /\ calls[i].in.op = "CreateCustomer"
        /\ Body(i) = BodyCustomer
        /\ calls[i].err.msg = BodyCustomer
        /\ calls[i].result.isNil

\* C2: whenever CreateCustomer, InitializeTransaction, ChargeAuthorization or
\* VerifyTransaction has returned after a 200 response whose body is a
\* well-formed envelope, its error is nil and its result points to a struct
\* whose every field is the corresponding member of the envelope's data
\* object, the nested authorization included.
C2_ResultMatchesData ==
    \A i \in Callers :
        (/\ Done(i) /\ GotBody(i) /\ Status(i) = 200
         /\ calls[i].in.op \in ResultOps
         /\ WellFormed(calls[i].in.op, ParseJSON(Body(i)))) =>
            /\ calls[i].err.isNil
            /\ ~calls[i].result.isNil
            /\ calls[i].result.val =
                 FieldForField(ResultStruct(calls[i].in.op), Get(ParseJSON(Body(i)), "data"))

C2_Witness ==
    \E i \in Callers :
        /\ Done(i) /\ GotBody(i) /\ Status(i) = 200
        /\ calls[i].in.op = "VerifyTransaction"
        /\ Body(i) = BodyVerified
        /\ calls[i].err.isNil
        /\ calls[i].result.val["Status"] = "success"
        /\ calls[i].result.val["Authorization"].val["Last4"] = "4081"
        /\ calls[i].result.val["Authorization"].val["Reusable"] = TRUE

\* C3: every request on the wire carries an Authorization header whose value
\* is "Bearer " followed by the secret the client was constructed with, which
\* is the non-empty value of PAYSTACK_SECRET.
C3_BearerOnEveryRequest ==
    \A w \in wire :
        /\ ~client.isNil
        /\ client.val.secret = env
        /\ env # ""
        /\ "Authorization" \in DOMAIN w.req.header
        /\ w.req.header["Authorization"] = "Bearer " \o env

C3_Witness ==
    \E w \in wire :
        /\ ncalls = 2
        /\ env = "sk_test_123"
        /\ w.req.header["Authorization"] = "Bearer sk_test_123"

\* C4: with an empty credential construction ends the process: no client
\* exists, no operation ever starts and nothing is sent; and a client that
\* exists never holds an empty secret.
C4_EmptySecretAborts ==
    /\ env = "" =>
          /\ client.isNil
          /\ proc # "running"
          /\ \A i \in Callers : calls[i].pc = "idle"
          /\ wire = {}
    /\ ~client.isNil => client.val.secret # ""

C4_Witness == env = "" /\ proc = "exited" /\ client.isNil

\* C5: every InitializeTransaction or ChargeAuthorization call with a usable
\* context gets its request built, whatever the amount (zero, negative, the
\* int32 extremes), and the body's "amount" member is a JSON string holding
\* the amount's decimal text, never a JSON number.
C5_AmountIsDecimalString ==
    \A i \in Callers :
        (/\ calls[i].pc # "idle"
         /\ calls[i].in.op \in {"InitializeTransaction", "ChargeAuthorization"}
         /\ calls[i].in.ctx # "nil") =>
            /\ calls[i].rerr.isNil \/ calls[i].attempts > 0
            /\ calls[i].req.body.k = "obj"
            /\ \E n \in 1..Len(calls[i].req.body.m) :
                  calls[i].req.body.m[n] =
                     Member("amount", [k |-> "str", v |-> DecimalText(calls[i].in.amount)])
            /\ \A n \in 1..Len(calls[i].req.body.m) :
                  calls[i].req.body.m[n].key = "amount" => calls[i].req.body.m[n].val.k = "str"

C5_Witness ==
    \E w \in wire :
        /\ calls[w.by].in.op = "ChargeAuthorization"
        /\ calls[w.by].in.amount = MinInt32
        /\ <<"amount", [k |-> "str", v |-> "-2147483648"]>> \in BodyMembers(w.req.body)

\* C6, as claimed: every operation that has returned after a 200 response
\* with an empty or malformed body returns a non-nil error.
C6_Original ==
    \A i \in Callers :
        (Done(i) /\ GotBody(i) /\ Status(i) = 200 /\ ParseJSON(Body(i)).k = "invalid") =>
            ~calls[i].err.isNil

\* C6, amended: an operation with a response shape (CreateCustomer,
\* InitializeTransaction, ChargeAuthorization, VerifyTransaction) that has
\* returned after a 200 response with an empty or malformed body returns a
\* non-nil decode error and a nil result; ValidateCredentials, which passes
\* no response shape, ignores the body and returns a nil error.
C6_DecodeErrorWhenShaped ==
    \A i \in Callers :
        (Done(i) /\ GotBody(i) /\ Status(i) = 200 /\ ParseJSON(Body(i)).k = "invalid") =>
            IF calls[i].in.op \in ResultOps
            THEN /\ ~calls[i].err.isNil
                 /\ calls[i].err.kind = "SyntaxError"
                 /\ calls[i].result.isNil
            ELSE calls[i].err.isNil

C6_Witness ==
    \E i \in Callers :
        /\ Done(i) /\ GotBody(i) /\ Status(i) = 200
        /\ Body(i) = BodyEmpty
        /\ calls[i].in.op = "CreateCustomer"
        /\ ~calls[i].err.isNil
        /\ calls[i].result.isNil

\* C7: every request an operation has built has the method, the path and the
\* body members of the interface table: ValidateCredentials GET /customer
\* without a body; CreateCustomer POST /customer with email;
\* InitializeTransaction POST /transaction/initialize with email and amount;
\* ChargeAuthorization POST /transaction/charge_authorization with email,
\* amount and authorization_code; VerifyTransaction GET
\* /transaction/verify/{reference} without a body, the reference as given.
C7_RequestsFollowTable ==
    \A i \in Callers :
        (calls[i].pc # "idle" /\ (calls[i].rerr.isNil \/ calls[i].attempts > 0)) =>
            LET in  == calls[i].in
                req == calls[i].req
            IN  CASE in.op = "ValidateCredentials" ->
                       /\ req.method = "GET"
                       /\ req.url = "https://api.paystack.co/customer"
                       /\ req.body = EmptyBytes
                  [] in.op = "CreateCustomer" ->
                       /\ req.method = "POST"
                       /\ req.url = "https://api.paystack.co/customer"
                       /\ BodyMembers(req.body) = {<<"email", JStr(in.email)>>}
                  [] in.op = "InitializeTransaction" ->
                       /\ req.method = "POST"
                       /\ req.url = "https://api.paystack.co/transaction/initialize"
                       /\ BodyMembers(req.body) =
                            {<<"email", JStr(in.email)>>,
                             <<"amount", JStr(DecimalText(in.amount))>>}
                  [] in.op = "ChargeAuthorization" ->
                       /\ req.method = "POST"
                       /\ req.url = "https://api.paystack.co/transaction/charge_authorization"
                       /\ BodyMembers(req.body) =
                            {<<"email", JStr(in.email)>>,
                             <<"amount", JStr(DecimalText(in.amount))>>,
                             <<"authorization_code", JStr(in.authCode)>>}
                  [] in.op = "VerifyTransaction" ->
                       /\ req.method = "GET"
                       /\ req.url = "https://api.paystack.co/transaction/verify/" \o in.ref
                       /\ req.body = EmptyBytes

\* C8: the response body is closed at most once; once Client.request has
\* returned it was closed exactly once if a response had been obtained
\* (success, body-read failure, non-200 status, decode failure alike) and not
\* at all otherwise; and it is not closed before Client.request returns.
C8_BodyClosedExactlyOnce ==
    \A i \in Callers :
        /\ calls[i].closed <= 1
        /\ calls[i].pc \in {"ret", "done"} =>
              calls[i].closed = (IF calls[i].net.kind = "resp" THEN 1 ELSE 0)
        /\ calls[i].pc \in {"idle", "do", "read", "unwind"} => calls[i].closed = 0

C8_Witness ==
    \E i \in Callers :
        /\ calls[i].pc = "ret"
        /\ calls[i].net.kind = "resp"
        /\ ~calls[i].net.resp.readOk
        /\ calls[i].rerr = ReadErr
        /\ calls[i].closed = 1

\* C9: a call enters http.DefaultClient.Do at most once and puts at most one
\* request on the wire; a call whose request could not be built sends
\* nothing; and a call that has returned after a build failure, a transport
\* error or a non-200 response returns a non-nil error and a nil result.
C9_SingleShot ==
    \A i \in Callers :
        /\ calls[i].attempts <= 1
        /\ Cardinality(SentBy(i)) <= 1
        /\ (calls[i].pc # "idle"
            /\ (calls[i].in.ctx = "nil" \/ HasControlChar(PlanOf(calls[i].in).url))) =>
              calls[i].attempts = 0 /\ SentBy(i) = {}
        /\ (Done(i)
            /\ \/ calls[i].in.ctx = "nil"
               \/ HasControlChar(PlanOf(calls[i].in).url)
               \/ calls[i].net.kind = "transport"
               \/ GotBody(i) /\ Status(i) # 200) =>
              ~calls[i].err.isNil /\ calls[i].result.isNil

C9_Witness ==
    \E i \in Callers :
        /\ Done(i)
        /\ calls[i].net.kind = "transport"
        /\ calls[i].net.sent
        /\ calls[i].attempts = 1
        /\ Cardinality(SentBy(i)) = 1
        /\ calls[i].err = TransportErr
        /\ calls[i].result.isNil

\* Two calls with the same arguments and the same network outcome sent the
\* same request and returned the same result and error; and what is on the
\* wire for a call is that call's own request.
SameInSameOut ==
    /\ \A i, j \in Callers :
          (Done(i) /\ Done(j) /\ calls[i].in = calls[j].in /\ calls[i].net = calls[j].net) =>
              /\ calls[i].req = calls[j].req
              /\ calls[i].result = calls[j].result
              /\ calls[i].err = calls[j].err
    /\ \A w \in wire : w.req = calls[w.by].req

\* C10: under every interleaving of the calls of goroutines sharing one
\* client, the client is never written once constructed, and the outcome of a
\* call (request sent, result, error) is decided by its own arguments and
\* its own response alone.
C10_NoInterference ==
    /\ []SameInSameOut
    /\ [][~client.isNil => client' = client]_vars

C10_Witness ==
    \E i, j \in Callers :
        /\ i # j
        /\ Done(i) /\ Done(j)
        /\ calls[i].in = calls[j].in
        /\ calls[i].in.op = "CreateCustomer"
        /\ calls[i].net = calls[j].net
        /\ Status(i) = 200
        /\ ~calls[i].result.isNil
        /\ calls[i].result = calls[j].result
        /\ Cardinality(wire) = 2

=============================================================================
